---- MODULE Spec2Model ----
(***************************************************************************)
(* Model of src/python/contracts/addressLookup.py: the AddressLookup       *)
(* registry (addr2id, id2addr, counter; entry points register and          *)
(* register_addr; seven on-chain views) and the LookupAddress contract     *)
(* that calls the registry's views.                                        *)
(*                                                                         *)
(* Every entry point is one atomic, all-or-nothing invocation: a failing   *)
(* sp.verify, a missing big_map key or an open_some() on None aborts the   *)
(* invocation and the storage stays as it was.                             *)
(***************************************************************************)
EXTENDS Naturals, Integers, Sequences, FiniteSets, TLC

(***************************************************************************)
(* Addresses and input ranges                                              *)
(***************************************************************************)
nulladdr == "nulladdr"
burnaddr == "burnaddr"
acc1 == "acc1"
acc2 == "acc2"
acc3 == "acc3"
\* address of the AddressLookup instance (c1) and of the LookupAddress
\* instance (c2) of the test scenario
RegistryAddr == "c1"
LookupAddr == "c2"

\* implicit accounts: what sp.source can be, and what is passed as an address
Addresses == {nulladdr, burnaddr, acc1, acc2, acc3}
\* what sp.sender can be: an implicit account or a calling contract
Senders == Addresses \cup {LookupAddr}

\* ids passed as inputs range over 0..MaxId
MaxId == 5
Ids == 0..MaxId
\* local indices of the LookupAddress maps range over 0..MaxIndex
MaxIndex == 0
Indices == 0..MaxIndex
\* SpecAny: caller-chosen initial ids and initial counter range over 0..MaxSeed
MaxSeed == 2

\* initial counter of the deployed registry
InitCounter == 2

(***************************************************************************)
(* Outcomes                                                                *)
(***************************************************************************)
OK == "OK"
\* what a failed invocation or a unit-typed view carries as its value
NoVal == "none"
\* failure of self.data.m[k] on a key that is absent (no message of the
\* contract is attached to it)
MissingItem == "MISSING_ITEM"
\* failure of open_some() on the None a view call to a non-registry yields
OpenSome == "OPEN_SOME"

Ret(v) == [err |-> OK, val |-> v]
Fail(e) == [err |-> e, val |-> NoVal]

(***************************************************************************)
(* big_map helpers                                                         *)
(***************************************************************************)
EmptyMap == [k \in {} |-> 0]
Contains(m, k) == k \in DOMAIN m
\* m[k] = v: inserts, or overwrites the value of an existing key
Put(m, k, v) == [x \in (DOMAIN m) \cup {k} |-> IF x = k THEN v ELSE m[x]]

VARIABLES
    addr2id,    \* AddressLookup storage: big_map address -> nat
    id2addr,    \* AddressLookup storage: big_map nat -> address
    counter,    \* AddressLookup storage: nat
    id_aaa,     \* LookupAddress storage: big_map nat -> record(a, b, c) of addresses
    id_nnn,     \* LookupAddress storage: big_map nat -> record(a, b, c) of nats
    id_reg,     \* LookupAddress storage: address of the registry it queries
    c0,         \* history: the counter the registry was originated with
    regLog      \* history: <<[addr, id]>> of the successful registrations, in order

vars == <<addr2id, id2addr, counter, id_aaa, id_nnn, id_reg, c0, regLog>>
regVars == <<addr2id, id2addr, counter>>
lookupVars == <<id_aaa, id_nnn, id_reg>>

\* the registry's storage as one value
Registry == [addr2id |-> addr2id, id2addr |-> id2addr, counter |-> counter]
\* the LookupAddress storage as one value
Lookup == [id_aaa |-> id_aaa, id_nnn |-> id_nnn, id_reg |-> id_reg]

(***************************************************************************)
(* AddressLookup: views.  r is the storage, sender is sp.sender and source  *)
(* is sp.source.                                                           *)
(***************************************************************************)
view_has_addr(r, param) == Ret(Contains(r.addr2id, param))

view_has_source(r, sender, source) == Ret(Contains(r.addr2id, source))

\* as view_verify_id_equ_source, comparing with sp.sender
verify_id_equ_sender(r, id, sender, source) ==
    IF ~Contains(r.id2addr, id) THEN Fail(MissingItem)
    ELSE IF r.id2addr[id] # sender THEN Fail("ID_NEQ_SOURCE")
    ELSE Ret(NoVal)

view_verify_id_equ_source(r, id, sender, source) ==
    IF ~Contains(r.id2addr, id) THEN Fail(MissingItem)
    ELSE IF r.id2addr[id] # source THEN Fail("ID_NEQ_SOURCE")
    ELSE Ret(NoVal)

\* as view_verify_id_equ_addr, without the contains check
verify_id_equ_addr_unchecked(r, id, addr) ==
    IF ~Contains(r.id2addr, id) THEN Fail(MissingItem)
    ELSE IF r.id2addr[id] # addr THEN Fail("ID_NEQ_ADDR")
    ELSE Ret(NoVal)

view_verify_id_equ_addr(r, id, addr) ==
    IF ~Contains(r.id2addr, id) THEN Fail("ID_UNKNOWN")
    ELSE IF r.id2addr[id] # addr THEN Fail("ID_NEQ_ADDR")
    ELSE Ret(NoVal)

view_get_counter(r) == Ret(r.counter)

\* as view_addr2id, without the contains check
addr2id_unchecked(r, param) ==
    IF ~Contains(r.addr2id, param) THEN Fail(MissingItem)
    ELSE Ret(r.addr2id[param])

view_addr2id(r, param) ==
    IF ~Contains(r.addr2id, param) THEN Fail("UNKNOWN")
    ELSE Ret(r.addr2id[param])

view_id2addr(r, param) ==
    IF ~Contains(r.id2addr, param) THEN Fail("UNKNOWN")
    ELSE Ret(r.id2addr[param])

\* the on-chain views that take no parameter and return a bool, by name
unit_bool_views == {"has_source"}
\* what the view of that name answers to a call with the given sp.sender and
\* sp.source
unit_bool_view(name, r, sender, source) ==
    CASE name = "has_source" -> view_has_source(r, sender, source)

(***************************************************************************)
(* AddressLookup: entry points.  The result is [err, st]: the outcome and  *)
(* the storage after the invocation (the storage before it, on failure).   *)
(***************************************************************************)
Commit(s) == [err |-> OK, st |-> s]
Abort(e, s) == [err |-> e, st |-> s]

\* as register, registering sp.sender
register_sender(r, sender, source) ==
    IF Contains(r.addr2id, sender) THEN Abort("REREG", r)
    ELSE Commit([addr2id |-> Put(r.addr2id, sender, r.counter),
                 id2addr |-> Put(r.id2addr, r.counter, sender),
                 counter |-> r.counter + 1])

\* as register, without the write to id2addr
register_no_id2addr(r, sender, source) ==
    IF Contains(r.addr2id, source) THEN Abort("REREG", r)
    ELSE Commit([addr2id |-> Put(r.addr2id, source, r.counter),
                 id2addr |-> r.id2addr,
                 counter |-> r.counter + 1])

\* as register, without the increment of counter
register_no_incr(r, sender, source) ==
    IF Contains(r.addr2id, source) THEN Abort("REREG", r)
    ELSE Commit([addr2id |-> Put(r.addr2id, source, r.counter),
                 id2addr |-> Put(r.id2addr, r.counter, source),
                 counter |-> r.counter])

\* as register, with the increment of counter before the two writes
register_incr_first(r, sender, source) ==
    IF Contains(r.addr2id, source) THEN Abort("REREG", r)
    ELSE Commit([addr2id |-> Put(r.addr2id, source, r.counter + 1),
                 id2addr |-> Put(r.id2addr, r.counter + 1, source),
                 counter |-> r.counter + 1])

\* as register, refusing once the counter has reached 4
register_capped(r, sender, source) ==
    IF Contains(r.addr2id, source) \/ r.counter >= 4 THEN Abort("REREG", r)
    ELSE Commit([addr2id |-> Put(r.addr2id, source, r.counter),
                 id2addr |-> Put(r.id2addr, r.counter, source),
                 counter |-> r.counter + 1])

register(r, sender, source) ==
    IF Contains(r.addr2id, source) THEN Abort("REREG", r)
    ELSE Commit([addr2id |-> Put(r.addr2id, source, r.counter),
                 id2addr |-> Put(r.id2addr, r.counter, source),
                 counter |-> r.counter + 1])

\* as register_addr, without the REREG check
register_addr_unguarded(r, sender, source, param) ==
    Commit([addr2id |-> Put(r.addr2id, param, r.counter),
            id2addr |-> Put(r.id2addr, r.counter, param),
            counter |-> r.counter + 1])

\* as register_addr, with the write to id2addr after the increment
register_addr_late_write(r, sender, source, param) ==
    IF Contains(r.addr2id, param) THEN Abort("REREG", r)
    ELSE Commit([addr2id |-> Put(r.addr2id, param, r.counter),
                 id2addr |-> Put(r.id2addr, r.counter + 1, param),
                 counter |-> r.counter + 1])

\* as register_addr, registering sp.source
register_addr_source(r, sender, source, param) ==
    IF Contains(r.addr2id, source) THEN Abort("REREG", r)
    ELSE Commit([addr2id |-> Put(r.addr2id, source, r.counter),
                 id2addr |-> Put(r.id2addr, r.counter, source),
                 counter |-> r.counter + 1])

\* as register_addr, without the increment of counter
register_addr_no_incr(r, sender, source, param) ==
    IF Contains(r.addr2id, param) THEN Abort("REREG", r)
    ELSE Commit([addr2id |-> Put(r.addr2id, param, r.counter),
                 id2addr |-> Put(r.id2addr, r.counter, param),
                 counter |-> r.counter])

register_addr(r, sender, source, param) ==
    IF Contains(r.addr2id, param) THEN Abort("REREG", r)
    ELSE Commit([addr2id |-> Put(r.addr2id, param, r.counter),
                 id2addr |-> Put(r.id2addr, r.counter, param),
                 counter |-> r.counter + 1])

(***************************************************************************)
(* LookupAddress: entry points.  l is its storage, r the storage of the    *)
(* registry; a view runs with sp.sender = LookupAddr and the transaction's *)
(* sp.source.  A failing view aborts the calling entry point.              *)
(***************************************************************************)
\* the names under which the registry declares its on-chain views
onchain_views == {"has_addr", "has_source", "chk_idEqSource", "chk_idEqAddr",
                  "get_counter", "addr2id", "id2addr"}

\* sp.view(name, target, arg, t).open_some(): res is what the registry's
\* view of that name yields; a target that is no registry, or a name the
\* registry does not declare, yields None
sp_view(name, target, res) ==
    IF target = RegistryAddr /\ name \in onchain_views THEN res ELSE Fail(OpenSome)

aaa_record(addr) == [a |-> addr, b |-> addr, c |-> addr]
nnn_record(id) == [a |-> id, b |-> id, c |-> id]

store_aaa(l, i, addr) ==
    Commit([l EXCEPT !.id_aaa = Put(@, i, aaa_record(addr))])

\* as lui_store_aaa, writing the entry of id instead of the entry of i
lui_store_aaa_at_id(l, r, i, id) ==
    LET addr == sp_view("id2addr", l.id_reg, view_id2addr(r, id))
    IN  IF addr.err # OK THEN Abort(addr.err, l)
        ELSE Commit([l EXCEPT !.id_aaa = Put(@, id, aaa_record(addr.val))])

lui_store_aaa(l, r, i, id) ==
    LET addr == sp_view("id2addr", l.id_reg, view_id2addr(r, id))
    IN  IF addr.err # OK THEN Abort(addr.err, l)
        ELSE Commit([l EXCEPT !.id_aaa = Put(@, i, aaa_record(addr.val))])

store_nnn(l, i, id) ==
    Commit([l EXCEPT !.id_nnn = Put(@, i, nnn_record(id))])

\* as lua_store_nnn, storing id 0 for an address the registry does not know
lua_store_nnn_default(l, r, i, addr) ==
    LET id == sp_view("addr2id", l.id_reg, view_addr2id(r, addr))
    IN  IF id.err # OK THEN Commit([l EXCEPT !.id_nnn = Put(@, i, nnn_record(0))])
        ELSE Commit([l EXCEPT !.id_nnn = Put(@, i, nnn_record(id.val))])

lua_store_nnn(l, r, i, addr) ==
    LET id == sp_view("addr2id", l.id_reg, view_addr2id(r, addr))
    IN  IF id.err # OK THEN Abort(id.err, l)
        ELSE Commit([l EXCEPT !.id_nnn = Put(@, i, nnn_record(id.val))])

\* as chk_view_has_addr, computing the view's answer without verifying it
chk_view_has_addr_unverified(l, r, addr) ==
    LET v == sp_view("has_addr", l.id_reg, view_has_addr(r, addr))
    IN  IF v.err # OK THEN Abort(v.err, l) ELSE Commit(l)

chk_view_has_addr(l, r, addr) ==
    LET v == sp_view("has_addr", l.id_reg, view_has_addr(r, addr))
    IN  IF v.err # OK THEN Abort(v.err, l)
        ELSE IF ~v.val THEN Abort("No such address", l)
        ELSE Commit(l)

chk_view_has_source(l, r, source) ==
    LET v == sp_view("has_source", l.id_reg, view_has_source(r, LookupAddr, source))
    IN  IF v.err # OK THEN Abort(v.err, l)
        ELSE IF ~v.val THEN Abort("Source not registered", l)
        ELSE Commit(l)

chk_view_idEqSource(l, r, id, source) ==
    LET v == sp_view("chk_idEqSource", l.id_reg, view_verify_id_equ_source(r, id, LookupAddr, source))
    IN  IF v.err # OK THEN Abort(v.err, l) ELSE Commit(l)

chk_view_idEqAddr(l, r, id, addr) ==
    LET v == sp_view("chk_idEqAddr", l.id_reg, view_verify_id_equ_addr(r, id, addr))
    IN  IF v.err # OK THEN Abort(v.err, l) ELSE Commit(l)

\* as chk_view_get_counter, accepting every counter up to the registry's
chk_view_get_counter_upto(l, r, cnt) ==
    LET v == sp_view("get_counter", l.id_reg, view_get_counter(r))
    IN  IF v.err # OK THEN Abort(v.err, l)
        ELSE IF cnt > v.val THEN Abort("BAD_COUNT", l)
        ELSE Commit(l)

chk_view_get_counter(l, r, cnt) ==
    LET v == sp_view("get_counter", l.id_reg, view_get_counter(r))
    IN  IF v.err # OK THEN Abort(v.err, l)
        ELSE IF cnt # v.val THEN Abort("BAD_COUNT", l)
        ELSE Commit(l)

(***************************************************************************)
(* Origination                                                             *)
(***************************************************************************)
\* origination params of the registry
seed_addr2id == [x \in {nulladdr, burnaddr} |-> IF x = nulladdr THEN 0 ELSE 1]
seed_id2addr == [x \in {0, 1} |-> IF x = 0 THEN nulladdr ELSE burnaddr]

\* the storage the registry is originated with
Init_Registry ==
    [addr2id |-> seed_addr2id, id2addr |-> seed_id2addr, counter |-> InitCounter]

\* LookupAddress(id_aaa, id_nnn, c1.address) with empty big_maps
InitLookup ==
    /\ id_aaa = EmptyMap
    /\ id_nnn = EmptyMap
    /\ id_reg = RegistryAddr

\* AddressLookup(addr2id, id2addr, 2)
Init ==
    /\ addr2id = seed_addr2id
    /\ id2addr = seed_id2addr
    /\ counter = InitCounter
    /\ InitLookup
    /\ c0 = InitCounter
    /\ regLog = <<>>

\* partial maps from keys in K to values in V
PartialMaps(K, V) == UNION {[D -> V] : D \in SUBSET K}

\* AddressLookup(a2i, i2a, c) with caller-chosen maps and counter
InitAny ==
    /\ addr2id \in PartialMaps({nulladdr, burnaddr}, 0..MaxSeed)
    /\ id2addr \in PartialMaps(0..MaxSeed, {nulladdr, burnaddr})
    /\ counter \in 0..MaxSeed
    /\ InitLookup
    /\ c0 = counter
    /\ regLog = <<>>

(***************************************************************************)
(* Invocations                                                             *)
(***************************************************************************)
\* every outcome an invocation can have
Outcomes == {OK, "REREG", "UNKNOWN", "ID_NEQ_SOURCE", "ID_UNKNOWN", "ID_NEQ_ADDR",
             "BAD_COUNT", "No such address", "Source not registered",
             MissingItem, OpenSome}

\* sp.sender of an invocation originated by source: the originator itself,
\* or a contract the originator called
Callers(source) == {source, LookupAddr}

\* an invocation of a registry entry point with outcome res; a is the
\* address it is to register
RegistryStep(res, a) ==
    /\ res.err \in Outcomes
    /\ addr2id' = res.st.addr2id
    /\ id2addr' = res.st.id2addr
    /\ counter' = res.st.counter
    /\ regLog' = IF res.err = OK
                 THEN Append(regLog, [addr |-> a, id |-> counter])
                 ELSE regLog
    /\ UNCHANGED <<lookupVars, c0>>

\* as ViewStep, with the view counted in counter
ViewStepCounted(res) ==
    /\ res.err \in Outcomes
    /\ counter' = counter + 1
    /\ UNCHANGED <<addr2id, id2addr, lookupVars, c0, regLog>>

\* a call of a registry view with outcome res: a view writes nothing
ViewStep(res) ==
    /\ res.err \in Outcomes
    /\ UNCHANGED vars

\* an invocation of a LookupAddress entry point with outcome res
LookupStep(res) ==
    /\ res.err \in Outcomes
    /\ id_aaa' = res.st.id_aaa
    /\ id_nnn' = res.st.id_nnn
    /\ id_reg' = res.st.id_reg
    /\ UNCHANGED <<regVars, c0, regLog>>

Register ==
    \E source \in Addresses : \E sender \in Callers(source) :
        RegistryStep(register(Registry, sender, source), source)

RegisterAddr ==
    \E source \in Addresses, param \in Addresses : \E sender \in Callers(source) :
        RegistryStep(register_addr(Registry, sender, source, param), param)

HasAddr ==
    \E param \in Addresses : ViewStep(view_has_addr(Registry, param))

HasSource ==
    \E source \in Addresses : \E sender \in Callers(source) :
        ViewStep(view_has_source(Registry, sender, source))

ChkIdEqSource ==
    \E id \in Ids, source \in Addresses : \E sender \in Callers(source) :
        ViewStep(view_verify_id_equ_source(Registry, id, sender, source))

ChkIdEqAddr ==
    \E id \in Ids, addr \in Addresses :
        ViewStep(view_verify_id_equ_addr(Registry, id, addr))

GetCounter == ViewStep(view_get_counter(Registry))

Addr2Id ==
    \E param \in Addresses : ViewStep(view_addr2id(Registry, param))

Id2Addr ==
    \E param \in Ids : ViewStep(view_id2addr(Registry, param))

StoreAaa ==
    \E i \in Indices, addr \in Addresses :
        LookupStep(store_aaa(Lookup, i, addr))

LuiStoreAaa ==
    \E i \in Indices, id \in Ids :
        LookupStep(lui_store_aaa(Lookup, Registry, i, id))

StoreNnn ==
    \E i \in Indices, id \in Ids :
        LookupStep(store_nnn(Lookup, i, id))

LuaStoreNnn ==
    \E i \in Indices, addr \in Addresses :
        LookupStep(lua_store_nnn(Lookup, Registry, i, addr))

ChkViewHasAddr ==
    \E addr \in Addresses :
        LookupStep(chk_view_has_addr(Lookup, Registry, addr))

ChkViewHasSource ==
    \E source \in Addresses :
        LookupStep(chk_view_has_source(Lookup, Registry, source))

ChkViewIdEqSource ==
    \E id \in Ids, source \in Addresses :
        LookupStep(chk_view_idEqSource(Lookup, Registry, id, source))

ChkViewIdEqAddr ==
    \E id \in Ids, addr \in Addresses :
        LookupStep(chk_view_idEqAddr(Lookup, Registry, id, addr))

ChkViewGetCounter ==
    \E cnt \in Ids :
        LookupStep(chk_view_get_counter(Lookup, Registry, cnt))

RegistryNext == Register \/ RegisterAddr

Next ==
    \/ Register
    \/ RegisterAddr
    \/ HasAddr
    \/ HasSource
    \/ ChkIdEqSource
    \/ ChkIdEqAddr
    \/ GetCounter
    \/ Addr2Id
    \/ Id2Addr
    \/ StoreAaa
    \/ LuiStoreAaa
    \/ StoreNnn
    \/ LuaStoreNnn
    \/ ChkViewHasAddr
    \/ ChkViewHasSource
    \/ ChkViewIdEqSource
    \/ ChkViewIdEqAddr
    \/ ChkViewGetCounter

\* the deployed system: seeded registry and the LookupAddress contract
Spec == Init /\ [][Next]_vars

\* the registry alone, originated with caller-chosen maps and counter
SpecAny == InitAny /\ [][RegistryNext]_vars

(***************************************************************************)
(* Properties                                                              *)
(***************************************************************************)
\* the addresses registered so far, seeded or by a successful registration
Registered == (DOMAIN seed_addr2id) \cup {regLog[k].addr : k \in 1..Len(regLog)}
\* every (sender, source) pair an invocation can carry
Origins == {<<sender, source>> \in Senders \X Addresses : sender \in Callers(source)}

\* C1: in every state of the seeded deployment the two maps are inverse to
\* each other: addr2id[a] = i exactly when id2addr[i] = a.
C1_Bijection ==
    /\ \A a \in DOMAIN addr2id :
          Contains(id2addr, addr2id[a]) /\ id2addr[addr2id[a]] = a
    /\ \A i \in DOMAIN id2addr :
          Contains(addr2id, id2addr[i]) /\ addr2id[id2addr[i]] = i

\* three registrations have succeeded: every address is a key
C1_Witness == Len(regLog) = 3 /\ DOMAIN addr2id = Addresses

\* C2: for an address that is seeded or was registered, register() originated
\* by it and register_addr of it fail with REREG and leave the storage as it is.
C2_WriteOnce ==
    \A a \in Registered :
        /\ \A sender \in Callers(a) :
              register(Registry, sender, a) = Abort("REREG", Registry)
        /\ \A o \in Origins :
              register_addr(Registry, o[1], o[2], a) = Abort("REREG", Registry)

\* acc1 registered itself first, and both ways of registering it again fail
C2_Witness ==
    /\ Len(regLog) >= 1
    /\ regLog[1].addr = acc1
    /\ register(Registry, acc1, acc1).err = "REREG"
    /\ register_addr(Registry, acc2, acc2, acc1).err = "REREG"

\* C3: whatever maps and counter the registry is originated with, no step
\* removes a key of addr2id or id2addr or changes the value mapped to it.
C3_NoReassignment ==
    [][/\ \A a \in DOMAIN addr2id :
             Contains(addr2id', a) /\ addr2id'[a] = addr2id[a]
       /\ \A i \in DOMAIN id2addr :
             Contains(id2addr', i) /\ id2addr'[i] = id2addr[i]]_vars

\* C4: get_counter() is the initial counter plus the number of successful
\* registrations; nothing else moves the counter.
C4_MonotonicCounter ==
    view_get_counter(Registry) = Ret(c0 + Len(regLog))

\* three registrations after origination with counter 2
C4_Witness == Len(regLog) = 3 /\ counter = 5 /\ c0 = 2

\* C5: the k-th successful registration (k = 1, 2, ...) is assigned the id
\* c0 + k - 1, an id below the current counter and held by one address only;
\* from the seed, the first gets 2, the second 3, and the counter is then 4.
C5_SequentialIds ==
    /\ \A k \in 1..Len(regLog) :
          /\ regLog[k].id = c0 + k - 1
          /\ regLog[k].id < counter
          /\ addr2id[regLog[k].addr] = c0 + k - 1
          /\ \A a \in DOMAIN addr2id :
                addr2id[a] = regLog[k].id => a = regLog[k].addr
    /\ {regLog[k].id : k \in 1..Len(regLog)} = c0..(c0 + Len(regLog) - 1)
    /\ Len(regLog) = 2 =>
          /\ view_addr2id(Registry, regLog[1].addr) = Ret(2)
          /\ view_id2addr(Registry, 2) = Ret(regLog[1].addr)
          /\ view_addr2id(Registry, regLog[2].addr) = Ret(3)
          /\ view_id2addr(Registry, 3) = Ret(regLog[2].addr)
          /\ view_get_counter(Registry) = Ret(4)

\* acc1 then acc2 registered, as in the test scenario
C5_Witness ==
    /\ Len(regLog) = 2
    /\ regLog[1].addr = acc1
    /\ regLog[2].addr = acc2

\* C6: for every registration that succeeded, of address a at counter i, the
\* views answer addr2id(a) = i, id2addr(i) = a and has_addr(a) = true, in the
\* state right after it and in every later state.
C6_QueryConsistency ==
    \A k \in 1..Len(regLog) :
        /\ view_addr2id(Registry, regLog[k].addr) = Ret(regLog[k].id)
        /\ view_id2addr(Registry, regLog[k].id) = Ret(regLog[k].addr)
        /\ view_has_addr(Registry, regLog[k].addr) = Ret(TRUE)

\* acc3 was registered first, two more registrations and a store followed
C6_Witness ==
    /\ Len(regLog) = 3
    /\ regLog[1].addr = acc3
    /\ id_nnn # EmptyMap

\* C7: register() tests and registers the originator: it fails with REREG
\* exactly when the originator is a key of addr2id, on success the new entry
\* is originator <-> counter, and the result is the same for every caller.
C7_RegistersOriginator ==
    \A source \in Addresses :
        LET res == register(Registry, source, source)
        IN  /\ \A sender \in Senders : register(Registry, sender, source) = res
            /\ res.err = IF Contains(addr2id, source) THEN "REREG" ELSE OK
            /\ res.err = OK =>
                  /\ DOMAIN res.st.addr2id = (DOMAIN addr2id) \cup {source}
                  /\ res.st.addr2id[source] = counter
                  /\ res.st.id2addr[counter] = source

\* acc1 is registered and acc2 is not: called through the LookupAddress
\* contract, register() of acc2 succeeds and register() of acc1 fails
C7_Witness ==
    /\ Len(regLog) = 1
    /\ regLog[1].addr = acc1
    /\ register(Registry, LookupAddr, acc2).err = OK
    /\ register(Registry, LookupAddr, acc1).err = "REREG"

\* C8: register_addr(a) has the outcome and the resulting storage of
\* register() originated by a, whoever calls or originates it.
C8_RegisterAddrAsRegister ==
    \A a \in Addresses :
        LET res == register(Registry, a, a)
        IN  /\ \A sender \in Senders : register(Registry, sender, a) = res
            /\ \A o \in Origins : register_addr(Registry, o[1], o[2], a) = res

\* acc2 is registered and acc3 is not: acc1 registering acc3 succeeds,
\* acc1 registering acc2 fails
C8_Witness ==
    /\ Len(regLog) = 1
    /\ regLog[1].addr = acc2
    /\ register_addr(Registry, acc1, acc1, acc3).err = OK
    /\ register_addr(Registry, acc1, acc1, acc2).err = "REREG"

\* what the chk_idEqSource view answers for (id, source) in the current state
IdEqSourceOutcome(id, source) ==
    IF ~Contains(id2addr, id) THEN MissingItem
    ELSE IF id2addr[id] # source THEN "ID_NEQ_SOURCE"
    ELSE OK

\* C9 as claimed: chk_idEqSource and chk_view_idEqSource fail with
\* ID_NEQ_SOURCE when id2addr[id] is undefined or differs from the
\* originator, and succeed otherwise.
C9_IdEqSourceAsClaimed ==
    \A id \in Ids, source \in Addresses :
        LET claimed == IF Contains(id2addr, id) /\ id2addr[id] = source
                       THEN OK ELSE "ID_NEQ_SOURCE"
        IN  /\ \A sender \in Callers(source) :
                  view_verify_id_equ_source(Registry, id, sender, source).err = claimed
            /\ chk_view_idEqSource(Lookup, Registry, id, source).err = claimed

\* C9 amended: they fail with ID_NEQ_SOURCE when id2addr[id] is defined and
\* differs from the originator, fail with the missing-key failure of the map
\* access when id2addr[id] is undefined, and succeed otherwise; the entry
\* point leaves the LookupAddress storage as it is.
C9_IdEqSource ==
    \A id \in Ids, source \in Addresses :
        /\ \A sender \in Callers(source) :
              view_verify_id_equ_source(Registry, id, sender, source).err
                  = IdEqSourceOutcome(id, source)
        /\ chk_view_idEqSource(Lookup, Registry, id, source)
              = [err |-> IdEqSourceOutcome(id, source), st |-> Lookup]

\* acc1 holds id 2: the check of 2 succeeds for acc1, fails as a mismatch for
\* acc3, and fails on the missing key for an id nobody holds
C9_Witness ==
    /\ Len(regLog) >= 1
    /\ regLog[1] = [addr |-> acc1, id |-> 2]
    /\ chk_view_idEqSource(Lookup, Registry, 2, acc1).err = OK
    /\ chk_view_idEqSource(Lookup, Registry, 2, acc3).err = "ID_NEQ_SOURCE"
    /\ chk_view_idEqSource(Lookup, Registry, 1, acc1).err = "ID_NEQ_SOURCE"
    /\ ~Contains(id2addr, MaxId)
    /\ chk_view_idEqSource(Lookup, Registry, MaxId, acc1).err = MissingItem

\* what the chk_idEqAddr view answers for (id, addr) in the current state
IdEqAddrOutcome(id, addr) ==
    IF ~Contains(id2addr, id) THEN "ID_UNKNOWN"
    ELSE IF id2addr[id] # addr THEN "ID_NEQ_ADDR"
    ELSE OK

\* C10: chk_idEqAddr and chk_view_idEqAddr fail with ID_UNKNOWN when id is
\* no key of id2addr, with ID_NEQ_ADDR when id2addr[id] differs from the
\* address, and succeed otherwise; in the seeded deployment (1, burnaddr)
\* and (0, nulladdr) succeed, (1, nulladdr) is a mismatch, and (10, burnaddr)
\* is unknown while the counter has not passed 10.
C10_IdEqAddr ==
    /\ \A id \in Ids \cup {10}, addr \in Addresses :
          /\ view_verify_id_equ_addr(Registry, id, addr).err = IdEqAddrOutcome(id, addr)
          /\ chk_view_idEqAddr(Lookup, Registry, id, addr)
                = [err |-> IdEqAddrOutcome(id, addr), st |-> Lookup]
    /\ chk_view_idEqAddr(Lookup, Registry, 1, burnaddr).err = OK
    /\ chk_view_idEqAddr(Lookup, Registry, 0, nulladdr).err = OK
    /\ chk_view_idEqAddr(Lookup, Registry, 1, nulladdr).err = "ID_NEQ_ADDR"
    /\ counter <= 10 => chk_view_idEqAddr(Lookup, Registry, 10, burnaddr).err = "ID_UNKNOWN"

\* acc2 holds id 2 and acc1 id 3: all three outcomes on registered ids
C10_Witness ==
    /\ Len(regLog) = 2
    /\ regLog[1].addr = acc2
    /\ regLog[2].addr = acc1
    /\ chk_view_idEqAddr(Lookup, Registry, 3, acc1).err = OK
    /\ chk_view_idEqAddr(Lookup, Registry, 3, acc2).err = "ID_NEQ_ADDR"
    /\ chk_view_idEqAddr(Lookup, Registry, 4, acc1).err = "ID_UNKNOWN"

\* C11: addr2id(a) fails with UNKNOWN when a is no key of addr2id and returns
\* addr2id[a] otherwise; id2addr(i) likewise on id2addr; on the keys of the
\* seeded deployment each view undoes the other.
C11_LookupViews ==
    /\ \A a \in Addresses :
          view_addr2id(Registry, a)
              = IF Contains(addr2id, a) THEN Ret(addr2id[a]) ELSE Fail("UNKNOWN")
    /\ \A i \in Ids :
          view_id2addr(Registry, i)
              = IF Contains(id2addr, i) THEN Ret(id2addr[i]) ELSE Fail("UNKNOWN")
    /\ \A a \in DOMAIN addr2id :
          view_id2addr(Registry, view_addr2id(Registry, a).val) = Ret(a)
    /\ \A i \in DOMAIN id2addr :
          view_addr2id(Registry, view_id2addr(Registry, i).val) = Ret(i)

\* acc2 holds id 2: both views answer for it, and both fail with UNKNOWN on
\* acc1 and on id 3, which are not registered
C11_Witness ==
    /\ regLog = <<[addr |-> acc2, id |-> 2]>>
    /\ view_addr2id(Registry, acc2) = Ret(2)
    /\ view_id2addr(Registry, 2) = Ret(acc2)
    /\ view_addr2id(Registry, acc1).err = "UNKNOWN"
    /\ view_id2addr(Registry, 3).err = "UNKNOWN"

\* C12: has_addr(a) never fails and answers true exactly when a is a key of
\* addr2id; chk_view_has_addr(a) succeeds exactly then and aborts otherwise,
\* and leaves the LookupAddress storage as it is.
C12_HasAddr ==
    \A a \in Addresses :
        /\ view_has_addr(Registry, a) = Ret(Contains(addr2id, a))
        /\ chk_view_has_addr(Lookup, Registry, a)
              = IF Contains(addr2id, a) THEN Commit(Lookup)
                ELSE Abort("No such address", Lookup)

\* acc3 is registered and acc1 is not: the check passes for the seeded
\* nulladdr and for acc3 and aborts for acc1
C12_Witness ==
    /\ regLog = <<[addr |-> acc3, id |-> 2]>>
    /\ chk_view_has_addr(Lookup, Registry, nulladdr).err = OK
    /\ chk_view_has_addr(Lookup, Registry, acc3).err = OK
    /\ chk_view_has_addr(Lookup, Registry, acc1).err = "No such address"

\* what has_source answers, and what chk_view_has_source does, for an
\* originator in the current state
HasSourceHolds ==
    \A source \in Addresses :
        /\ \A sender \in Senders :
              view_has_source(Registry, sender, source)
                  = Ret(Contains(addr2id, source))
        /\ chk_view_has_source(Lookup, Registry, source)
              = IF Contains(addr2id, source) THEN Commit(Lookup)
                ELSE Abort("Source not registered", Lookup)

\* C13 as claimed: among the parameterless bool views the registry declares
\* there is one that answers true exactly when the immediate caller is a key
\* of addr2id, has_source answers true exactly when the originator is a key,
\* and chk_view_has_source invoked by originator o succeeds exactly when o is
\* a key of addr2id.
C13_SenderAndSourceAsClaimed ==
    /\ \E name \in unit_bool_views :
          \A o \in Origins :
              unit_bool_view(name, Registry, o[1], o[2])
                  = Ret(Contains(addr2id, o[1]))
    /\ HasSourceHolds

\* C14: the registry's storage changes only in a successful registration:
\* a step that changes addr2id, id2addr or counter logs one registration and
\* is the insertion of the logged address at the old counter; view calls and
\* LookupAddress entry points, returning or failing, change none of the three.
C14_RegistryFrame ==
    [][regVars' # regVars =>
          /\ Len(regLog') = Len(regLog) + 1
          /\ regLog'[Len(regLog')] \in [addr : Addresses \ DOMAIN addr2id, id : {counter}]
          /\ addr2id' = Put(addr2id, regLog'[Len(regLog')].addr, counter)
          /\ id2addr' = Put(id2addr, counter, regLog'[Len(regLog')].addr)
          /\ counter' = counter + 1
          /\ lookupVars' = lookupVars]_vars

\* one registration happened, and both LookupAddress maps were written since
C14_Witness ==
    /\ regLog = <<[addr |-> acc2, id |-> 2]>>
    /\ Registry = register(Init_Registry, acc2, acc2).st
    /\ id_aaa # EmptyMap
    /\ id_nnn # EmptyMap

\* C15: every invocation that fails leaves the storage it ran on as it was:
\* register and register_addr of a registered address, lui_store_aaa of an
\* unknown id, lua_store_nnn of an unknown address, a chk_* entry point whose
\* assertion fails; and these invocations do fail.
C15_AllOrNothing ==
    /\ \A a \in Addresses :
          /\ \A sender \in Callers(a) :
                LET res == register(Registry, sender, a)
                IN  /\ res.err # OK => res.st = Registry
                    /\ Contains(addr2id, a) => res.err # OK
          /\ \A o \in Origins :
                LET res == register_addr(Registry, o[1], o[2], a)
                IN  /\ res.err # OK => res.st = Registry
                    /\ Contains(addr2id, a) => res.err # OK
          /\ LET res == chk_view_has_addr(Lookup, Registry, a)
             IN  res.err # OK => res.st = Lookup
          /\ LET res == chk_view_has_source(Lookup, Registry, a)
             IN  res.err # OK => res.st = Lookup
    /\ \A i \in Indices, id \in Ids :
          LET res == lui_store_aaa(Lookup, Registry, i, id)
          IN  /\ res.err # OK => res.st = Lookup
              /\ ~Contains(id2addr, id) => res.err # OK
    /\ \A i \in Indices, a \in Addresses :
          LET res == lua_store_nnn(Lookup, Registry, i, a)
          IN  /\ res.err # OK => res.st = Lookup
              /\ ~Contains(addr2id, a) => res.err # OK
    /\ \A id \in Ids :
          /\ \A a \in Addresses :
                /\ LET res == chk_view_idEqSource(Lookup, Registry, id, a)
                   IN  res.err # OK => res.st = Lookup
                /\ LET res == chk_view_idEqAddr(Lookup, Registry, id, a)
                   IN  res.err # OK => res.st = Lookup
          /\ LET res == chk_view_get_counter(Lookup, Registry, id)
             IN  res.err # OK => res.st = Lookup

\* both LookupAddress maps hold an entry, and a lookup of an unknown id, a
\* lookup of an unknown address and a repeated registration fail
C15_Witness ==
    /\ Contains(id_aaa, 0)
    /\ Contains(id_nnn, 0)
    /\ Len(regLog) = 1
    /\ lui_store_aaa(Lookup, Registry, 0, MaxId).err = "UNKNOWN"
    /\ lua_store_nnn(Lookup, Registry, 0, acc3).err = "UNKNOWN"
    /\ register(Registry, regLog[1].addr, regLog[1].addr).err = "REREG"

\* C16: whatever maps and counter the registry is originated with, no step
\* removes a key of addr2id or of id2addr, a step that logs a successful
\* registration adds exactly one new key to each map, and no other step
\* changes the key sets.
C16_NoRemoval ==
    [][/\ DOMAIN addr2id \subseteq DOMAIN addr2id'
       /\ DOMAIN id2addr \subseteq DOMAIN id2addr'
       /\ Len(regLog') # Len(regLog) =>
             /\ Cardinality(DOMAIN addr2id') = Cardinality(DOMAIN addr2id) + 1
             /\ Cardinality(DOMAIN id2addr') = Cardinality(DOMAIN id2addr) + 1
       /\ Len(regLog') = Len(regLog) =>
             /\ DOMAIN addr2id' = DOMAIN addr2id
             /\ DOMAIN id2addr' = DOMAIN id2addr]_vars

\* local indices the store entry points are tried on: those in use and one
\* beyond them
TryIndices == 0..(MaxIndex + 1)

\* C17: lui_store_aaa(i, id) succeeds exactly when id is a key of id2addr and
\* then sets id_aaa[i] to the record of three times id2addr[id] and changes
\* nothing else of the LookupAddress storage; lua_store_nnn(i, addr) succeeds
\* exactly when addr is a key of addr2id and then sets id_nnn[i] to the
\* record of three times addr2id[addr] and changes nothing else.
C17_LookupThenStore ==
    /\ \A i \in TryIndices, id \in Ids :
          LET res == lui_store_aaa(Lookup, Registry, i, id)
          IN  /\ res.err = OK <=> Contains(id2addr, id)
              /\ res.err = OK =>
                    /\ DOMAIN res.st.id_aaa = (DOMAIN id_aaa) \cup {i}
                    /\ res.st.id_aaa[i]
                          = [a |-> id2addr[id], b |-> id2addr[id], c |-> id2addr[id]]
                    /\ \A j \in (DOMAIN id_aaa) \ {i} : res.st.id_aaa[j] = id_aaa[j]
                    /\ res.st.id_nnn = id_nnn
                    /\ res.st.id_reg = id_reg
    /\ \A i \in TryIndices, addr \in Addresses :
          LET res == lua_store_nnn(Lookup, Registry, i, addr)
          IN  /\ res.err = OK <=> Contains(addr2id, addr)
              /\ res.err = OK =>
                    /\ DOMAIN res.st.id_nnn = (DOMAIN id_nnn) \cup {i}
                    /\ res.st.id_nnn[i]
                          = [a |-> addr2id[addr], b |-> addr2id[addr], c |-> addr2id[addr]]
                    /\ \A j \in (DOMAIN id_nnn) \ {i} : res.st.id_nnn[j] = id_nnn[j]
                    /\ res.st.id_aaa = id_aaa
                    /\ res.st.id_reg = id_reg

\* entry 0 of id_aaa holds the looked-up address of id 2 and entry 0 of id_nnn
\* the looked-up id of acc1; a lookup stored in entry 1 leaves entry 0 alone
C17_Witness ==
    /\ regLog = <<[addr |-> acc1, id |-> 2]>>
    /\ Contains(id_aaa, 0) /\ id_aaa[0] = aaa_record(acc1)
    /\ Contains(id_nnn, 0) /\ id_nnn[0] = nnn_record(2)
    /\ lui_store_aaa(Lookup, Registry, 1, 0).st.id_aaa[0] = aaa_record(acc1)
    /\ lui_store_aaa(Lookup, Registry, 1, 0).st.id_aaa[1] = aaa_record(nulladdr)
    /\ lui_store_aaa(Lookup, Registry, 1, 3).err = "UNKNOWN"

\* C18: chk_view_get_counter(c) succeeds exactly when c is the registry's
\* counter and aborts with BAD_COUNT otherwise; after two registrations on
\* the seeded deployment it succeeds for 4 and aborts for 5.
C18_CounterAssertion ==
    /\ \A cnt \in 0..(MaxId + 1) :
          chk_view_get_counter(Lookup, Registry, cnt)
              = IF cnt = counter THEN Commit(Lookup) ELSE Abort("BAD_COUNT", Lookup)
    /\ Len(regLog) = 2 =>
          /\ chk_view_get_counter(Lookup, Registry, 4).err = OK
          /\ chk_view_get_counter(Lookup, Registry, 5).err = "BAD_COUNT"

\* acc1 and acc2 registered: 4 passes, 3 and 5 abort
C18_Witness ==
    /\ Len(regLog) = 2
    /\ {regLog[1].addr, regLog[2].addr} = {acc1, acc2}
    /\ chk_view_get_counter(Lookup, Registry, 4).err = OK
    /\ chk_view_get_counter(Lookup, Registry, 3).err = "BAD_COUNT"
    /\ chk_view_get_counter(Lookup, Registry, 5).err = "BAD_COUNT"

\* C19: register() originated by a and register_addr(a) succeed exactly when
\* a is no key of addr2id and fail with REREG otherwise, whatever the number
\* of registrations before; a success makes a a key.
C19_NeverBlocked ==
    \A a \in Addresses :
        /\ \A sender \in Callers(a) :
              LET r1 == register(Registry, sender, a)
              IN  /\ r1.err = IF Contains(addr2id, a) THEN "REREG" ELSE OK
                  /\ r1.err = OK => Contains(r1.st.addr2id, a)
        /\ \A o \in Origins :
              LET r2 == register_addr(Registry, o[1], o[2], a)
              IN  /\ r2.err = IF Contains(addr2id, a) THEN "REREG" ELSE OK
                  /\ r2.err = OK => Contains(r2.st.addr2id, a)

\* after two registrations the one address left can still register
C19_Witness ==
    /\ Len(regLog) = 2
    /\ counter = 4
    /\ ~Contains(addr2id, acc3)
    /\ register(Registry, acc3, acc3).err = OK
    /\ register_addr(Registry, acc1, acc1, acc3).err = OK

\* C20: in the seeded deployment a successful lui_store_aaa(i, id) leaves
\* id2addr[id] in id_aaa[i], a successful lua_store_nnn(i, addr) leaves
\* addr2id[addr] in id_nnn[i], and while an entry keeps its value the
\* registry keeps answering that value for the id or address it was looked
\* up for, whatever registrations come in between.
C20_NeverStale ==
    /\ [](/\ \A i \in Indices, id \in DOMAIN id2addr :
                LET res == lui_store_aaa(Lookup, Registry, i, id)
                IN  res.err = OK /\ res.st.id_aaa[i].a = id2addr[id]
          /\ \A i \in Indices, addr \in DOMAIN addr2id :
                LET res == lua_store_nnn(Lookup, Registry, i, addr)
                IN  res.err = OK /\ res.st.id_nnn[i].a = addr2id[addr])
    /\ [][/\ \A i \in DOMAIN id_aaa, id \in DOMAIN id2addr :
               (/\ id_aaa[i].a = id2addr[id]
                /\ Contains(id_aaa', i)
                /\ id_aaa'[i] = id_aaa[i])
                   => Contains(id2addr', id) /\ id2addr'[id] = id_aaa'[i].a
          /\ \A i \in DOMAIN id_nnn, addr \in DOMAIN addr2id :
               (/\ id_nnn[i].a = addr2id[addr]
                /\ Contains(id_nnn', i)
                /\ id_nnn'[i] = id_nnn[i])
                   => Contains(addr2id', addr) /\ addr2id'[addr] = id_nnn'[i].a]_vars

\* acc1 was registered, looked up by id and by address into entry 0 of both
\* maps, and two more registrations followed
C20_Witness ==
    /\ Len(regLog) = 3
    /\ regLog[1] = [addr |-> acc1, id |-> 2]
    /\ Contains(id_aaa, 0) /\ id_aaa[0] = aaa_record(acc1)
    /\ Contains(id_nnn, 0) /\ id_nnn[0] = nnn_record(2)
    /\ view_id2addr(Registry, 2) = Ret(acc1)
    /\ view_addr2id(Registry, acc1) = Ret(2)

====
